---- MODULE Spec2Model ----
(***************************************************************************)
(* Array-sum accumulator circuit of src/src/array_sum_example.rs.          *)
(*                                                                         *)
(* The state is the constraint system and the witness grid that            *)
(* ArraySumCircuit::synthesize builds through the region API, one region   *)
(* call per step, followed by the satisfiability check of the grid against *)
(* a public input vector.  Rows and array indices are 0-based as in the    *)
(* source.  The region API and the checker belong to the proving library;  *)
(* they are modelled from sections 4.4 - 4.6 of the specification.         *)
(***************************************************************************)
EXTENDS Integers, FiniteSets, Sequences, TLC

\* Modulus of the model field that stands for pasta::Fp.
P == 2
\* Largest array length N (the const generic of FiboChip / ArraySumCircuit).
MaxN == 3
\* Largest array length for which an arbitrary witness is enumerated.
MaxForgeN == 2

VARIABLES
    N,            \* const N: usize
    xs,           \* ArraySumCircuit.xs : [Value<F>; N]
    mode,         \* who drives synthesis: "none", "prove", "keygen", "forged"
    pc,           \* position inside synthesize / assign_row
    row,          \* loop variable of assign_row
    accum_value,  \* let mut accum_value
    out_cell,     \* let mut out_cell
    selector,     \* rows at which config.selector is enabled
    advice,       \* assigned advice cells: <<column, row>> -> Value
    copies,       \* equality constraints between a cell and an instance row
    result,       \* what synthesize returned: "none", "ok", "err"
    errs,         \* region / layouter calls that returned Err
    instance,     \* public input vector handed to the checker
    failures,     \* violations reported by the checker
    touched       \* advice cells overwritten after synthesis

vars == <<N, xs, mode, pc, row, accum_value, out_cell, selector, advice,
          copies, result, errs, instance, failures, touched>>

----------------------------------------------------------------------------
\* Field elements and Value<F>

Fp == 0 .. (P - 1)

Known(v) == [known |-> TRUE, val |-> v]

Unknown == [known |-> FALSE, val |-> 0]

KnownValues == {Known(v) : v \in Fp}

Values == KnownValues \cup {Unknown}

FAdd(a, b) == (a + b) % P

FSub(a, b) == (a + P - b) % P

FMul(a, b) == (a * b) % P

\* A plausible slip in line 82: the accumulator is never advanced.
ValueAdd_keep(u, v) == u

\* Value<F> + Value<F>: known only when both operands are known.
ValueAdd(u, v) ==
    IF u.known /\ v.known THEN Known(FAdd(u.val, v.val)) ELSE Unknown

\* A plausible slip in line 62: the accumulator starts without a value.
InitAccum_unknown == Unknown

\* let mut accum_value = Value::known(F::ZERO)
InitAccum == Known(0)

----------------------------------------------------------------------------
\* Configuration (FiboChip::configure)

Columns == {"a", "x", "accum"}

Cells(n) == Columns \X (0 .. (n - 1))

\* meta.enable_equality(instance); for column in &advice { enable_equality }
EqualityEnabled == {"instance"} \cup Columns

\* Rotation::cur()
Rotation_cur == 0

CellKnown(adv, c) == c \in DOMAIN adv /\ adv[c].known

\* The cells the gate "add" queries at row r, all at Rotation::cur().
gate_cells(r) ==
    [a |-> <<"a", r + Rotation_cur>>,
     b |-> <<"x", r + Rotation_cur>>,
     c |-> <<"accum", r + Rotation_cur>>]

\* A plausible slip in line 49: the output column is left out of the identity.
gate_add_no_output(s, a, b, c) == FMul(s, FAdd(a, b))

\* vec![s * (a + b - c)]
gate_add(s, a, b, c) == FMul(s, FSub(FAdd(a, b), c))

----------------------------------------------------------------------------
\* The circuit

\* Circuit::without_witnesses
without_witnesses(c) == [i \in DOMAIN c |-> Unknown]

Err == [ok |-> FALSE, cell |-> <<"none", 0>>]

Ok(c) == [ok |-> TRUE, cell |-> c]

\* A plausible slip in line 66: the loop re-enables row 0 as line 60 does.
enable_offset_zero(r) == 0

\* A plausible slip in line 66: off by one.
enable_offset_next(r) == r + 1

\* self.config.selector.enable(&mut region, row)
enable_offset(r) == r

\* A plausible slip in line 64: the loop stops one row early.
loop_end_short(n) == n - 1

\* for row in 0..N
loop_end(n) == n

\* A plausible slip in line 133: the first public row instead of the last.
exposed_row_first(n) == 0

\* chip.expose_public(.., &out_cell, N-1)
exposed_row(n) == n - 1

\* region.assign_advice(.., column, offset, || value): the cell now holds value
Assign(adv, c, v) ==
    [d \in DOMAIN adv \cup {c} |-> IF d = c THEN v ELSE adv[d]]

EmptyGrid == [c \in {} |-> Unknown]

NoInstance == [i \in {} |-> 0]

----------------------------------------------------------------------------
\* The checker

GateFailures(sel, adv) ==
    {[kind |-> "GateViolation", gate |-> "add", row |-> r] :
        r \in {q \in sel :
                 LET g == gate_cells(q) IN
                 /\ CellKnown(adv, g.a) /\ CellKnown(adv, g.b) /\ CellKnown(adv, g.c)
                 /\ gate_add(1, adv[g.a].val, adv[g.b].val, adv[g.c].val) # 0}}
    \cup
    {[kind |-> "CellNotAssigned", gate |-> "add", row |-> r] :
        r \in {q \in sel :
                 LET g == gate_cells(q) IN
                 ~(CellKnown(adv, g.a) /\ CellKnown(adv, g.b) /\ CellKnown(adv, g.c))}}

EqualityFailures(adv, cps, inst) ==
    {[kind |-> "EqualityViolation", cell |-> cp.cell, irow |-> cp.irow] :
        cp \in {q \in cps :
                  ~(/\ CellKnown(adv, q.cell)
                    /\ q.irow \in DOMAIN inst
                    /\ adv[q.cell].val = inst[q.irow])}}

check(sel, adv, cps, inst) ==
    GateFailures(sel, adv) \cup EqualityFailures(adv, cps, inst)

----------------------------------------------------------------------------
Init ==
    /\ N \in 1 .. MaxN
    /\ xs \in [0 .. (N - 1) -> Values]
    /\ mode = "none"
    /\ pc = "start"
    /\ row = 0
    /\ accum_value = Unknown
    /\ out_cell = Err
    /\ selector = {}
    /\ advice = EmptyGrid
    /\ copies = {}
    /\ result = "none"
    /\ errs = {}
    /\ instance = NoInstance
    /\ failures = {}
    /\ touched = {}

\* A region or layouter call returned Err and `?` propagated it out of
\* assign_row and synthesize.
Abort(op) ==
    /\ errs' = errs \cup {[op |-> op, row |-> row]}
    /\ result' = "err"
    /\ pc' = "done"
    /\ UNCHANGED <<N, xs, mode, row, accum_value, out_cell, selector, advice,
                   copies, instance, failures, touched>>

\* MockProver::run(k, &circuit, ..) synthesizes the circuit as given.
MockProverRun ==
    /\ pc = "start"
    /\ mode' = "prove"
    /\ pc' = "enable0"
    /\ UNCHANGED <<N, xs, row, accum_value, out_cell, selector, advice, copies,
                   result, errs, instance, failures, touched>>

\* Key generation synthesizes circuit.without_witnesses().
KeygenSynthesize ==
    /\ pc = "start"
    /\ mode' = "keygen"
    /\ xs' = without_witnesses(xs)
    /\ pc' = "enable0"
    /\ UNCHANGED <<N, row, accum_value, out_cell, selector, advice, copies,
                   result, errs, instance, failures, touched>>

\* Lines 60-62: selector.enable(&mut region, 0)?, then the two let mut.
EnableFirst ==
    /\ pc = "enable0"
    /\ \/ /\ selector' = selector \cup {0}
          /\ out_cell' = Err
          /\ accum_value' = InitAccum
          /\ row' = 0
          /\ pc' = IF 0 < loop_end(N) THEN "enable" ELSE "return"
          /\ UNCHANGED <<N, xs, mode, advice, copies, result, errs, instance,
                         failures, touched>>
       \/ Abort("enable0")

\* Line 66: selector.enable(&mut region, row)?
EnableRow ==
    /\ pc = "enable"
    /\ \/ /\ selector' = selector \cup {enable_offset(row)}
          /\ pc' = "assign_a"
          /\ UNCHANGED <<N, xs, mode, row, accum_value, out_cell, advice, copies,
                         result, errs, instance, failures, touched>>
       \/ Abort("enable")

\* Lines 68-73: region.assign_advice(|| "a", col_a, row, || accum_value)?
AssignA ==
    /\ pc = "assign_a"
    /\ \/ /\ advice' = Assign(advice, <<"a", row>>, accum_value)
          /\ pc' = "assign_x"
          /\ UNCHANGED <<N, xs, mode, row, accum_value, out_cell, selector,
                         copies, result, errs, instance, failures, touched>>
       \/ Abort("a")

\* Lines 75-80: region.assign_advice(.., col_x, row, || x)?
AssignX ==
    /\ pc = "assign_x"
    /\ \/ /\ advice' = Assign(advice, <<"x", row>>, xs[row])
          /\ pc' = "assign_accum"
          /\ UNCHANGED <<N, xs, mode, row, accum_value, out_cell, selector,
                         copies, result, errs, instance, failures, touched>>
       \/ Abort("x")

\* Lines 82-89: accum_value = accum_value + x; out_cell = assign_advice(..);
\* the Result is stored, not propagated, and the loop goes on.
AssignAccum ==
    /\ pc = "assign_accum"
    /\ accum_value' = ValueAdd(accum_value, xs[row])
    /\ \/ /\ advice' = Assign(advice, <<"accum", row>>, accum_value')
          /\ out_cell' = Ok(<<"accum", row>>)
          /\ errs' = errs
       \/ /\ advice' = advice
          /\ out_cell' = Err
          /\ errs' = errs \cup {[op |-> "accum", row |-> row]}
    /\ row' = row + 1
    /\ pc' = IF row + 1 < loop_end(N) THEN "enable" ELSE "return"
    /\ UNCHANGED <<N, xs, mode, selector, copies, result, instance, failures,
                   touched>>

\* Lines 91-93 and 132: the closure returns out_cell, and synthesize applies `?`.
Return ==
    /\ pc = "return"
    /\ IF out_cell.ok
         THEN pc' = "expose" /\ result' = result
         ELSE pc' = "done" /\ result' = "err"
    /\ UNCHANGED <<N, xs, mode, row, accum_value, out_cell, selector, advice,
                   copies, errs, instance, failures, touched>>

\* Lines 96-98 and 133-135: constrain_instance(cell, instance, N-1)?; Ok(())
ExposePublic ==
    /\ pc = "expose"
    /\ \/ /\ out_cell.cell[1] \in EqualityEnabled
          /\ "instance" \in EqualityEnabled
          /\ copies' = copies \cup {[cell |-> out_cell.cell, irow |-> exposed_row(N)]}
          /\ result' = "ok"
          /\ pc' = "synthesized"
          /\ UNCHANGED <<N, xs, mode, row, accum_value, out_cell, selector,
                         advice, errs, instance, failures, touched>>
       \/ Abort("expose")

\* The checker walks the grid.  The public input vector is read here for the
\* first time; a second check of an altered grid uses the same vector.
Verify ==
    /\ pc = "synthesized"
    /\ mode \in {"prove", "forged"}
    /\ \E inst \in IF touched = {} THEN [0 .. (N - 1) -> Fp] ELSE {instance} :
          /\ instance' = inst
          /\ failures' = check(selector, advice, copies, inst)
    /\ pc' = "checked"
    /\ UNCHANGED <<N, xs, mode, row, accum_value, out_cell, selector, advice,
                   copies, result, errs, touched>>

\* One advice cell of a satisfying grid is changed to a different value.
Tamper ==
    /\ pc = "checked"
    /\ mode = "prove"
    /\ touched = {}
    /\ failures = {}
    /\ \E c \in DOMAIN advice, v \in Fp :
          /\ advice[c] # Known(v)
          /\ advice' = Assign(advice, c, Known(v))
          /\ touched' = {c}
    /\ pc' = "synthesized"
    /\ UNCHANGED <<N, xs, mode, row, accum_value, out_cell, selector, copies,
                   result, errs, instance, failures>>

\* A prover fills the grid of the keyed circuit with values of its choice.
Forge ==
    /\ pc = "synthesized"
    /\ mode = "keygen"
    /\ N <= MaxForgeN
    /\ advice' \in [DOMAIN advice -> KnownValues]
    /\ mode' = "forged"
    /\ UNCHANGED <<N, xs, pc, row, accum_value, out_cell, selector, copies,
                   result, errs, instance, failures, touched>>

Next ==
    \/ MockProverRun
    \/ KeygenSynthesize
    \/ EnableFirst
    \/ EnableRow
    \/ AssignA
    \/ AssignX
    \/ AssignAccum
    \/ Return
    \/ ExposePublic
    \/ Verify
    \/ Tamper

Spec == Init /\ [][Next]_vars

NextForge == Next \/ Forge

SpecForge == Init /\ [][NextForge]_vars

----------------------------------------------------------------------------
\* Reference values the properties compare the grid with

AllKnown(c) == \A i \in DOMAIN c : c[i].known

\* Field sum of the first n entries of a vector of known values.
RECURSIVE PartialSum(_, _)
PartialSum(c, n) == IF n = 0 THEN 0 ELSE (PartialSum(c, n - 1) + c[n - 1].val) % P

\* The x column of the grid, rows 0..N-1, as a vector.
XColumn == [i \in 0 .. (N - 1) |-> advice[<<"x", i>>]]

ExposedCell == <<"accum", N - 1>>

Exposure == [cell |-> ExposedCell, irow |-> N - 1]

ExposureViolation ==
    [kind |-> "EqualityViolation", cell |-> ExposedCell, irow |-> N - 1]

\* The checker has judged the grid that synthesize built from known inputs,
\* no region call having failed and no cell having been altered since.
HonestChecked ==
    /\ pc = "checked"
    /\ mode = "prove"
    /\ touched = {}
    /\ errs = {}
    /\ AllKnown(xs)

----------------------------------------------------------------------------
\* C1 (correctness): for every array of N >= 1 known field elements, the grid
\* that synthesize builds, checked against a public input vector whose row N-1
\* is the field sum of the array, yields no violation: the gate "add" vanishes
\* at every selector-active row and the exposure equality holds.
C1_Correctness ==
    (HonestChecked /\ instance[N - 1] = PartialSum(xs, N)) => failures = {}

C1_Witness ==
    /\ HonestChecked
    /\ N = MaxN
    /\ \A i \in 0 .. (N - 1) : xs[i].val # 0
    /\ instance[N - 1] = PartialSum(xs, N)
    /\ failures = {}

\* C2 (soundness of the check): for every array of N >= 1 known field elements
\* and every claimed output different from its field sum, the check of the
\* synthesized grid against a public vector holding that output at row N-1
\* reports a violation, and it is the equality violation between the exposed
\* cell (accum, N-1) and public row N-1.
C2_Soundness ==
    (HonestChecked /\ instance[N - 1] # PartialSum(xs, N))
        => failures = {ExposureViolation}

C2_Witness ==
    /\ HonestChecked
    /\ N = MaxN
    /\ instance[N - 1] # PartialSum(xs, N)
    /\ instance[0] = PartialSum(xs, N)
    /\ failures = {ExposureViolation}

\* C3 (the constraints enforce the sum): every filled grid over rows 0..N-1,
\* whatever values its a, x and accum cells hold, that satisfies the gate at
\* every active row and every registered equality constraint has the field
\* sum of its x column in its (accum, N-1) cell.
C3_ConstraintsEnforceSum ==
    (pc = "checked" /\ mode = "forged" /\ failures = {})
        => advice[ExposedCell].val = PartialSum(XColumn, N)

\* C4 (row-locality): in a satisfying synthesized grid with N >= 3, changing
\* one advice cell at a row r with 0 < r < N-1 to a different value makes the
\* checker report a violation of gate "add" at row r and at no other row.
C4_RowLocality ==
    (pc = "checked" /\ touched # {})
        => \A c \in touched :
              (0 < c[2] /\ c[2] < N - 1)
                 => {f \in failures : f.kind # "EqualityViolation"}
                      = {[kind |-> "GateViolation", gate |-> "add", row |-> c[2]]}

C4_Witness ==
    /\ pc = "checked"
    /\ N = 3
    /\ touched = {<<"accum", 1>>}
    /\ failures = {[kind |-> "GateViolation", gate |-> "add", row |-> 1]}

\* C5 (public-input padding): a successful synthesize registers exactly one
\* equality constraint, between cell (accum, N-1) and instance row N-1, and
\* the checker's verdict on the grid is the same for every public vector of
\* length N that agrees with the given one at row N-1.  Verify draws every
\* public vector for every grid, so the verdict being unchanged by any change
\* of one row other than N-1, in every reachable state, carries over row by
\* row to any two vectors that agree at row N-1.
C5_PublicPadding ==
    /\ result = "ok" => copies = {Exposure}
    /\ result # "ok" => copies = {}
    /\ (pc = "checked" /\ mode = "prove")
          => \A i \in 0 .. (N - 2), v \in Fp :
                (check(selector, advice, copies, [instance EXCEPT ![i] = v]) = {})
                   <=> (failures = {})

C5_Witness ==
    /\ HonestChecked
    /\ N = MaxN
    /\ copies = {Exposure}
    /\ failures = {}
    /\ \A i \in 0 .. (N - 2) : instance[i] # 0

\* C6 (first-row accumulator input): in every grid assign_row produces, for
\* known, unknown or mixed inputs, cell (a, 0) holds the known zero of the
\* field; and for N = 1 with xs = [v] the accum cell of row 0 holds v and the
\* gate is satisfied at row 0.
C6_FirstRowZero ==
    /\ (touched = {} /\ mode # "forged" /\ <<"a", 0>> \in DOMAIN advice)
          => advice[<<"a", 0>>] = Known(0)
    /\ (pc = "synthesized" /\ mode = "prove" /\ touched = {} /\ errs = {}
          /\ N = 1 /\ xs[0].known)
          => /\ advice[<<"accum", 0>>] = xs[0]
             /\ GateFailures(selector, advice) = {}

C6_Witness ==
    /\ pc = "synthesized"
    /\ N = 1
    /\ mode = "prove"
    /\ xs[0] = Known(1)
    /\ advice[<<"a", 0>>] = Known(0)
    /\ advice[<<"accum", 0>>] = Known(1)

C6_WitnessMixed ==
    /\ pc = "synthesized"
    /\ N = MaxN
    /\ ~xs[0].known
    /\ xs[1].known
    /\ advice[<<"a", 0>>] = Known(0)

\* C7 (shape-only synthesis): synthesizing the circuit that without_witnesses
\* returns does not fail (no region call failing): the selector is activated
\* and the same 3N cells are assigned as with a known witness, the handle of
\* (accum, N-1) is returned, the exposure constraint is registered and
\* synthesize returns success.
C7_ShapeOnly ==
    (mode \in {"keygen", "prove"} /\ errs = {} /\ pc \in {"done", "synthesized"})
        => /\ pc = "synthesized"
           /\ result = "ok"
           /\ selector = 0 .. (N - 1)
           /\ DOMAIN advice = Cells(N)
           /\ out_cell = Ok(ExposedCell)
           /\ copies = {Exposure}
           /\ mode = "keygen" => \A i \in 0 .. (N - 1) : ~xs[i].known

C7_Witness ==
    /\ mode = "keygen"
    /\ pc = "synthesized"
    /\ errs = {}
    /\ N = MaxN
    /\ result = "ok"
    /\ DOMAIN advice = Cells(N)

\* C8 (synthesis errors abort synthesis): once a selector activation or a cell
\* assignment of assign_row has failed at row r, nothing is activated or
\* assigned at a row greater than r, assign_row returns the error, and
\* synthesize returns it without registering the exposure constraint.
C8_ErrorsAbort ==
    \A e \in errs :
       /\ selector \subseteq 0 .. e.row
       /\ \A c \in DOMAIN advice : c[2] <= e.row
       /\ pc \in {"done", "synthesized", "checked"}
             => (result = "err" /\ copies = {})

\* C9 (accumulator chain): in the grid assign_row builds from N >= 1 known
\* inputs, at every row i the x cell holds xs[i], the a cell holds the field
\* sum of xs[0..i-1] (zero at row 0, the accum cell of row i at row i+1) and
\* the accum cell holds a + xs[i]; the handle returned is (accum, N-1).
C9_AccumulatorChain ==
    (mode = "prove" /\ touched = {} /\ errs = {} /\ AllKnown(xs))
        => /\ \A i \in 0 .. (N - 1) :
                /\ <<"a", i>> \in DOMAIN advice
                      => advice[<<"a", i>>] = Known(PartialSum(xs, i))
                /\ <<"x", i>> \in DOMAIN advice
                      => advice[<<"x", i>>] = xs[i]
                /\ <<"accum", i>> \in DOMAIN advice
                      => /\ advice[<<"accum", i>>] = Known(PartialSum(xs, i + 1))
                         /\ advice[<<"accum", i>>].val
                               = (advice[<<"a", i>>].val + xs[i].val) % P
                /\ <<"a", i + 1>> \in DOMAIN advice
                      => advice[<<"a", i + 1>>] = advice[<<"accum", i>>]
           /\ pc \in {"expose", "synthesized", "checked"}
                 => /\ DOMAIN advice = Cells(N)
                    /\ out_cell = Ok(ExposedCell)

C9_Witness ==
    /\ pc = "expose"
    /\ mode = "prove"
    /\ errs = {}
    /\ N = MaxN
    /\ \A i \in 0 .. (N - 1) : xs[i] = Known(1)
    /\ advice[<<"a", N - 1>>] = Known((N - 1) % P)
    /\ out_cell = Ok(ExposedCell)

\* C10 (selector activation is idempotent per row): after assign_row the
\* selector is active at exactly rows 0..N-1; the second activation of row 0,
\* inside the loop, leaves the selector as the single activation before the
\* loop left it; and no row at or beyond N is ever activated.
C10_SelectorRows ==
    /\ selector \subseteq 0 .. (N - 1)
    /\ (pc = "assign_a" /\ row = 0) => selector = {0}
    /\ pc \in {"assign_a", "assign_x", "assign_accum"} => selector = 0 .. row
    /\ pc \in {"return", "expose", "synthesized", "checked"}
          => selector = 0 .. (N - 1)

C10_Witness ==
    /\ pc = "return"
    /\ N = MaxN
    /\ selector = 0 .. (N - 1)

====
